---- MODULE Spec2Model ----
(***************************************************************************)
(* Identifier mapping and aggregation engine of burden_genesets:           *)
(*   create_trait_modules.py  inverted index of a trait relation and the   *)
(*                            per-individual membership lookup;            *)
(*   convert.py               duplicate detection, per-file conversion of  *)
(*                            setlist / annotation files, and the          *)
(*                            per-chromosome driver convert_data.          *)
(* Python strings are sequences of one-character strings, so that strip,   *)
(* replace, split and join are computed character by character.            *)
(***************************************************************************)
EXTENDS Integers, Sequences, FiniteSets, TLC

VARIABLES
    pc,               \* position of the running function
    error,            \* exception that ended the run, "none" while there is none
    trait_df,         \* create_trait_modules: the trait relation, one row per trait
    individual_codes, \* create_trait_modules: one individual's icd10_codes cell
    icd10_to_traits,  \* create_trait_modules: dict code -> list of trait idx
    row_i,            \* create_trait_modules: next row of trait_df.iterrows()
    trait_modules,    \* create_trait_modules: the value get_trait_modules returned
    combined_df,      \* double_occurances: the record set
    col,              \* double_occurances: the key column
    duplicates,       \* double_occurances: the returned rows
    reported,         \* double_occurances: the count in the printed message
    infile,           \* convert_setlist / convert_annot: the file read
    transcript_map,   \* convert_*: transcript -> gene_set table (merged_df of convert_data)
    outfile,          \* convert_*: the file written in outdir, NoFile while not written
    geneset_df,       \* convert_data: the gene-set relation, exploded
    fs,               \* convert_data: the input directory, file -> content or Missing
    chrom_i,          \* convert_data: index of the chromosome of the loop
    outdir,           \* convert_data: the output directory, file -> content or NoFile
    events            \* convert_data: the events printed and the files written, in order

vars == <<pc, error, trait_df, individual_codes, icd10_to_traits, row_i,
          trait_modules, combined_df, col, duplicates, reported, infile,
          transcript_map, outfile, geneset_df, fs, chrom_i, outdir, events>>

traitVars == <<trait_df, individual_codes, icd10_to_traits, row_i, trait_modules>>
dupVars == <<combined_df, col, duplicates, reported>>
convVars == <<infile, outfile>>
dataVars == <<geneset_df, fs, chrom_i, outdir, events>>

----------------------------------------------------------------------------
(* Bounds of the explored inputs.                                          *)

\* longest code list of a trait row or of an individual
MaxCodes == 2
\* most rows of a record set handed to double_occurances
MaxDupRows == 6
\* most rows of a setlist or annotation file
MaxFileRows == 2
\* chromosomes of the per-chromosome loop (the code loops over 22)
NumChromosomes == 3

----------------------------------------------------------------------------
(* Python str methods on character sequences.                              *)

Whitespace == {" "}
Quotes == {"'", "\""}
Brackets == {"[", "]"}

RECURSIVE LStrip(_, _)
LStrip(s, cs) ==
    IF s = <<>> THEN s
    ELSE IF Head(s) \in cs THEN LStrip(Tail(s), cs) ELSE s

RECURSIVE RStrip(_, _)
RStrip(s, cs) ==
    IF s = <<>> THEN s
    ELSE IF s[Len(s)] \in cs THEN RStrip(SubSeq(s, 1, Len(s) - 1), cs) ELSE s

\* str.strip(chars)
Strip(s, cs) == RStrip(LStrip(s, cs), cs)

\* str.replace(c, '')
RemoveChar(s, c) == SelectSeq(s, LAMBDA x : x # c)

RECURSIVE SplitFrom(_, _, _)
SplitFrom(s, sep, cur) ==
    IF s = <<>> THEN <<cur>>
    ELSE IF Head(s) = sep THEN <<cur>> \o SplitFrom(Tail(s), sep, <<>>)
    ELSE SplitFrom(Tail(s), sep, Append(cur, Head(s)))

\* str.split(sep): '' splits to ['']
Split(s, sep) == SplitFrom(s, sep, <<>>)

RECURSIVE Join(_, _)
\* sep.join(parts), sep a string
Join(parts, sep) ==
    IF parts = <<>> THEN <<>>
    ELSE IF Len(parts) = 1 THEN parts[1]
    ELSE parts[1] \o sep \o Join(Tail(parts), sep)

StartsWith(s, c) == s # <<>> /\ Head(s) = c

Range(f) == {f[i] : i \in DOMAIN f}

RECURSIVE SortedSeq(_)
\* sorted(list(S)) for a finite set of integers
SortedSeq(S) ==
    IF S = {} THEN <<>>
    ELSE LET m == CHOOSE x \in S : \A y \in S : x <= y
         IN <<m>> \o SortedSeq(S \ {m})

\* all sequences over S of length at most n
SeqsUpTo(S, n) == UNION {[1..k -> S] : k \in 0..n}

----------------------------------------------------------------------------
(* create_trait_modules.py                                                 *)
(* A cell is [t, v]: t = "list" with v a sequence of codes, t = "str" with *)
(* v a string, t = "nan" / "none" / "num" (no sequence, v unused).  A row  *)
(* of trait_df is [idx, icd10, codes]: icd10 is the cell the code reads,   *)
(* codes the code list the cell encodes (the relation of the data model;   *)
(* never read by the operators below).                                     *)

EmptyDict == [c \in {} |-> <<>>]

\* lines 48-50: a string cell is parsed, any other cell is iterated as it is
RowCodes(cell) ==
    IF cell.t = "str"
    THEN Split(RemoveChar(Strip(cell.v, Brackets), " "), ",")
    ELSE cell.v

\* line 54: code.strip().strip("'\"")
CleanCode(code) == Strip(Strip(code, Whitespace), Quotes)

\* lines 55-57
AddCode(index, code, idx) ==
    IF code \in DOMAIN index
    THEN [index EXCEPT ![code] = Append(@, idx)]
    ELSE [c \in DOMAIN index \cup {code} |->
             IF c = code THEN <<idx>> ELSE index[c]]

RECURSIVE AddCodes(_, _, _)
\* lines 53-57: for code in icd10_codes
AddCodes(index, codes, idx) ==
    IF codes = <<>> THEN index
    ELSE AddCodes(AddCode(index, CleanCode(Head(codes)), idx), Tail(codes), idx)

\* isinstance(x, str) or a sequence: what "for code in x" can iterate
Iterable(cell) == cell.t \in {"str", "list"}

RECURSIVE BuildIndex(_, _)
\* lines 41-57 run to the end on a relation every cell of which is iterable
BuildIndex(index, rows) ==
    IF rows = <<>> THEN index
    ELSE BuildIndex(AddCodes(index, RowCodes(Head(rows).icd10), Head(rows).idx),
                    Tail(rows))

\* lines 67-69: a string that starts with '['
BracketCodes(s) ==
    LET codes == Split(RemoveChar(Strip(s, Brackets), " "), ",")
        kept == SelectSeq(codes, LAMBDA c : Strip(c, Whitespace) # <<>>)
    IN [i \in DOMAIN kept |-> CleanCode(kept[i])]

StripSpace(c) == Strip(c, Whitespace)

\* mutant: the string is taken as one code, not split on ','
CommaCodesWhole(s) == <<s>>

\* lines 70-72: "Assume comma-separated or single code"
CommaCodes(s) ==
    LET codes == Split(s, ",") IN [i \in DOMAIN codes |-> StripSpace(codes[i])]

\* lines 65-74
IndividualCodes(ind) ==
    IF ind.t = "str"
    THEN IF StartsWith(ind.v, "[") THEN BracketCodes(ind.v) ELSE CommaCodes(ind.v)
    ELSE ind.v

RECURSIVE TraitModulesUnsorted(_, _)
\* mutant: the lists of the codes found are concatenated, no set and no sort
TraitModulesUnsorted(index, codes) ==
    IF codes = <<>> THEN <<>>
    ELSE (IF Head(codes) \in DOMAIN index THEN index[Head(codes)] ELSE <<>>)
         \o TraitModulesUnsorted(index, Tail(codes))

\* lines 79-84: the set of trait idx of the codes found, sorted
TraitModulesOf(index, codes) ==
    SortedSeq(UNION {Range(index[codes[i]]) :
                        i \in {j \in DOMAIN codes : codes[j] \in DOMAIN index}})

\* lines 59-84
get_trait_modules(index, ind) ==
    IF ind.t \in {"none", "nan"} THEN <<>>
    ELSE IF ind.t \in {"str", "list"} THEN TraitModulesOf(index, IndividualCodes(ind))
    ELSE <<>>

(* Inputs.  Codes are plain identifiers; a relation cell is a list, its    *)
(* "[A, B]" or "['A', 'B']" string, or NaN; an individual's cell is a list, *)
(* its "[A, B]" string, a comma-separated string, None, NaN or a number.   *)
Codes == {<<"A">>, <<"B">>}
CodeLists == SeqsUpTo(Codes, MaxCodes)
TraitIds == <<1, 2>>

\* "[A, B]"
BracketForm(L) == <<"[">> \o Join(L, <<",", " ">>) \o <<"]">>
Quoted(c) == <<"'">> \o c \o <<"'">>
\* "['A', 'B']"
ReprForm(L) == <<"[">> \o Join([i \in DOMAIN L |-> Quoted(L[i])], <<",", " ">>) \o <<"]">>
\* "A, B"
PlainForm(L) == Join(L, <<",", " ">>)
\* " A,B"
PaddedForm(L) == <<" ">> \o Join(L, <<",">>)

TraitCells ==
    {[icd10 |-> [t |-> "list", v |-> L], codes |-> L] : L \in CodeLists}
    \cup {[icd10 |-> [t |-> "str", v |-> BracketForm(L)], codes |-> L] : L \in CodeLists}
    \cup {[icd10 |-> [t |-> "str", v |-> ReprForm(L)], codes |-> L] : L \in CodeLists}
    \cup {[icd10 |-> [t |-> "nan", v |-> <<>>], codes |-> <<>>]}

Individuals ==
    {[t |-> "list", v |-> L, codes |-> L] : L \in CodeLists}
    \cup {[t |-> "str", v |-> BracketForm(L), codes |-> L] : L \in CodeLists}
    \cup {[t |-> "str", v |-> PlainForm(L), codes |-> L] : L \in CodeLists \ {<<>>}}
    \cup {[t |-> "str", v |-> PaddedForm(L), codes |-> L] : L \in CodeLists \ {<<>>}}
    \cup {[t |-> k, v |-> <<>>, codes |-> <<>>] : k \in {"none", "nan", "num"}}

\* the values the variables of the other components keep
IdleTrait ==
    /\ trait_df = <<>> /\ individual_codes = [t |-> "none", v |-> <<>>, codes |-> <<>>]
    /\ icd10_to_traits = EmptyDict /\ row_i = 0 /\ trait_modules = <<>>
IdleDup == combined_df = <<>> /\ col = "snp" /\ duplicates = <<>> /\ reported = 0
NoFile == [t |-> "nofile", rows |-> <<>>]
Missing == [t |-> "missing", rows |-> <<>>]
IdleConv == infile = Missing /\ outfile = NoFile
IdleMap == transcript_map = <<>>
IdleData ==
    /\ geneset_df = <<>> /\ fs = <<>> /\ chrom_i = 0 /\ outdir = <<>> /\ events = <<>>

InitTrait ==
    /\ pc = "build" /\ error = "none"
    /\ \E c \in [DOMAIN TraitIds -> TraitCells] :
          trait_df = [i \in DOMAIN TraitIds |->
                         [idx |-> TraitIds[i], icd10 |-> c[i].icd10, codes |-> c[i].codes]]
    /\ individual_codes \in Individuals
    /\ icd10_to_traits = EmptyDict /\ row_i = 1 /\ trait_modules = <<>>
    /\ IdleDup /\ IdleConv /\ IdleMap /\ IdleData

\* lines 43-57: one iteration of "for _, row in trait_df.iterrows()"
BuildRow ==
    /\ pc = "build" /\ row_i <= Len(trait_df)
    /\ LET row == trait_df[row_i]
       IN IF Iterable(row.icd10)
          THEN /\ icd10_to_traits' =
                      AddCodes(icd10_to_traits, RowCodes(row.icd10), row.idx)
               /\ row_i' = row_i + 1
               /\ pc' = IF row_i = Len(trait_df) THEN "apply" ELSE "build"
               /\ UNCHANGED error
          ELSE \* "for code in icd10_codes" on a float: TypeError
               /\ error' = "TypeError" /\ pc' = "raised"
               /\ UNCHANGED <<icd10_to_traits, row_i>>
    /\ UNCHANGED <<trait_df, individual_codes, trait_modules>>
    /\ UNCHANGED <<dupVars, convVars, transcript_map, dataVars>>

\* line 87: get_trait_modules applied to the individual's cell
ApplyIndividual ==
    /\ pc = "apply"
    /\ trait_modules' = get_trait_modules(icd10_to_traits, individual_codes)
    /\ pc' = "done"
    /\ UNCHANGED <<error, trait_df, individual_codes, icd10_to_traits, row_i>>
    /\ UNCHANGED <<dupVars, convVars, transcript_map, dataVars>>

NextTrait == BuildRow \/ ApplyIndividual

SpecTrait == InitTrait /\ [][NextTrait]_vars

----------------------------------------------------------------------------
(* Claims on create_trait_modules, checked under SpecTrait.                *)

\* code is listed for trait k in the relation
Listed(code, k) ==
    \E i \in DOMAIN trait_df :
        trait_df[i].idx = k /\ code \in Range(trait_df[i].codes)

Ascending(s) == \A i, j \in DOMAIN s : i < j => s[i] <= s[j]
NoRepeat(s) == \A i, j \in DOMAIN s : i # j => s[i] # s[j]
AsList(L) == [t |-> "list", v |-> L, codes |-> L]
IndexSets(index) == [c \in DOMAIN index |-> Range(index[c])]

\* C1: for an individual's code list given as a list (or None / NaN), the
\* sequence get_trait_modules returns is sorted ascending, holds no trait
\* twice, and holds trait k exactly when some code of the list is listed for
\* k in the relation; codes absent from the index add nothing and raise
\* nothing; an empty list, None and NaN give the empty list.
C1_SortedDedupMembership ==
    (pc = "done" /\ individual_codes.t \in {"list", "none", "nan"}) =>
        /\ error = "none"
        /\ Ascending(trait_modules)
        /\ NoRepeat(trait_modules)
        /\ \A k \in Range(TraitIds) :
              k \in Range(trait_modules) <=>
                  \E c \in Range(individual_codes.v) : Listed(c, k)
        /\ Range(trait_modules) \subseteq Range(TraitIds)
        /\ individual_codes.v = <<>> => trait_modules = <<>>

\* C1 witness: a two-code list, one code in both traits and one code in no
\* trait, resolved to [1, 2]
C1_Witness ==
    /\ pc = "done" /\ individual_codes.t = "list"
    /\ Len(individual_codes.v) = 2
    /\ \E c \in Range(individual_codes.v) : c \notin DOMAIN icd10_to_traits
    /\ \E c \in Range(individual_codes.v) :
          c \in DOMAIN icd10_to_traits /\ Len(icd10_to_traits[c]) = 2
    /\ trait_modules = <<1, 2>>

NativeRow(r) == [idx |-> r.idx, icd10 |-> [t |-> "list", v |-> r.codes], codes |-> r.codes]

\* C2: a relation cell holding "[A, B, C]" and a cell holding the list
\* [A, B, C] give the same code -> trait sets in the index, and an
\* individual's cell in the string form resolves to the same traits as the
\* same cell given as a list.
C2_RepresentationIndependent ==
    /\ (/\ pc \in {"apply", "done"}
        /\ \A i \in DOMAIN trait_df :
              trait_df[i].icd10.t = "str" =>
                  trait_df[i].icd10.v = BracketForm(trait_df[i].codes))
       => IndexSets(icd10_to_traits)
              = IndexSets(BuildIndex(EmptyDict, [i \in DOMAIN trait_df |-> NativeRow(trait_df[i])]))
    /\ (/\ pc = "done" /\ individual_codes.t = "str"
        /\ individual_codes.v = BracketForm(individual_codes.codes))
       => trait_modules
              = get_trait_modules(icd10_to_traits, AsList(individual_codes.codes))

IterableRow(r) == Iterable(r.icd10)

\* C8: building the index never raises: a row whose cell is neither a string
\* nor a sequence adds no code and no trait, the other rows are indexed as
\* usual.
C8_NoErrorConditions ==
    (\E i \in DOMAIN trait_df : ~Iterable(trait_df[i].icd10)) =>
        /\ error = "none"
        /\ pc # "raised"
        /\ pc \in {"apply", "done"} =>
              icd10_to_traits = BuildIndex(EmptyDict, SelectSeq(trait_df, IterableRow))

ScalarString(ind) == ind.t = "str" /\ ~StartsWith(ind.v, "[")

\* C9 as stated: a scalar v resolves as the one-element list [v].
C9_ScalarIsSingleton ==
    /\ (pc = "done" /\ ScalarString(individual_codes)) =>
          trait_modules = get_trait_modules(icd10_to_traits, AsList(<<individual_codes.v>>))
    /\ (pc = "done" /\ individual_codes.t = "num") => trait_modules = <<>>
    /\ (pc = "done" /\ individual_codes.t = "list" /\ individual_codes.v = <<>>) =>
          trait_modules = <<>>

\* C9 amended: an empty input gives the empty result; a string that does not
\* begin with '[' is read as a comma-separated list (split on ',', each piece
\* stripped of whitespace) and resolves as that list of codes, which is [v]
\* when v holds no comma and no surrounding whitespace; a scalar that is
\* neither a string nor a list gives the empty list.
C9_ScalarIsCommaList ==
    /\ (pc = "done" /\ ScalarString(individual_codes)) =>
          /\ trait_modules =
                get_trait_modules(icd10_to_traits, AsList(individual_codes.codes))
          /\ ("," \notin Range(individual_codes.v)
                 /\ Strip(individual_codes.v, Whitespace) = individual_codes.v) =>
                trait_modules =
                    get_trait_modules(icd10_to_traits, AsList(<<individual_codes.v>>))
    /\ (pc = "done" /\ individual_codes.t = "num") => trait_modules = <<>>
    /\ (pc = "done" /\ individual_codes.t = "list" /\ individual_codes.v = <<>>) =>
          trait_modules = <<>>

\* C9 witness: the scalar "A, B" resolved to the traits of A and of B
C9_Witness ==
    /\ pc = "done" /\ individual_codes.t = "str"
    /\ individual_codes.v = PlainForm(<< <<"A">>, <<"B">> >>)
    /\ <<"A", ",", " ", "B">> \notin DOMAIN icd10_to_traits
    /\ trait_modules = <<1, 2>>

----------------------------------------------------------------------------
(* convert.py: double_occurances                                           *)
(* A row is [index, snp, transcript]; index is the row label the combined  *)
(* frame carries (pd.concat(..., ignore_index=True)).                      *)

\* mutant: duplicated(subset=col) with the default keep='first'
DuplicatedKeepFirst(df, c) ==
    [i \in DOMAIN df |-> \E j \in DOMAIN df : j < i /\ df[j][c] = df[i][c]]

\* line 133: combined_df.duplicated(subset=col, keep=False)
Duplicated(df, c) ==
    [i \in DOMAIN df |-> \E j \in DOMAIN df : j # i /\ df[j][c] = df[i][c]]

RECURSIVE MaskFrom(_, _, _)
MaskFrom(df, mask, i) ==
    IF i > Len(df) THEN <<>>
    ELSE (IF mask[i] THEN <<df[i]>> ELSE <<>>) \o MaskFrom(df, mask, i + 1)

\* line 133: df[mask], the rows whose mask is True, in the frame's order
Masked(df, mask) == MaskFrom(df, mask, 1)

\* line 134: duplicates[col].nunique()
NUnique(df, c) == Cardinality({df[i][c] : i \in DOMAIN df})

(* Inputs.  The key cells hold identifiers, as in the files of the input   *)
(* formats: no cell of a key column is missing.                            *)
DupRowPool ==
    {[snp |-> "a", transcript |-> "T1"], [snp |-> "a", transcript |-> "T2"],
     [snp |-> "b", transcript |-> "T1"], [snp |-> "c", transcript |-> "T2"]}

Indexed(rows) ==
    [i \in DOMAIN rows |->
        [index |-> i - 1, snp |-> rows[i].snp, transcript |-> rows[i].transcript]]

InitDup ==
    /\ pc = "detect" /\ error = "none"
    /\ \E rows \in SeqsUpTo(DupRowPool, MaxDupRows) : combined_df = Indexed(rows)
    /\ col \in {"snp", "transcript"}
    /\ duplicates = <<>> /\ reported = 0
    /\ IdleTrait /\ IdleConv /\ IdleMap /\ IdleData

\* lines 132-135
double_occurances ==
    /\ pc = "detect"
    /\ duplicates' = Masked(combined_df, Duplicated(combined_df, col))
    /\ reported' = NUnique(duplicates', col)
    /\ pc' = "done"
    /\ UNCHANGED <<error, combined_df, col>>
    /\ UNCHANGED <<traitVars, convVars, transcript_map, dataVars>>

NextDup == double_occurances

SpecDup == InitDup /\ [][NextDup]_vars

(* Claims on double_occurances, checked under SpecDup. *)

Occurrences(k) == {i \in DOMAIN combined_df : combined_df[i][col] = k}
KeysOf(df) == [i \in DOMAIN df |-> df[i][col]]

\* C6: the rows returned are exactly the rows whose key occurs in more than
\* one row of the set (every occurrence, the first too, each row once, in the
\* set's order), and the count reported is the number of distinct keys among
\* them, not the number of rows: keys [a,a,a,b,c,c] report 2.
C6_DuplicateRowsAndCount ==
    pc = "done" =>
        /\ \A i \in DOMAIN combined_df :
              combined_df[i] \in Range(duplicates)
                  <=> Cardinality(Occurrences(combined_df[i][col])) > 1
        /\ Range(duplicates) \subseteq Range(combined_df)
        /\ \A i, j \in DOMAIN duplicates :
              i < j => duplicates[i].index < duplicates[j].index
        /\ reported =
              Cardinality({k \in Range(KeysOf(combined_df)) :
                              Cardinality(Occurrences(k)) > 1})
        /\ KeysOf(combined_df) = <<"a", "a", "a", "b", "c", "c">> =>
              reported = 2 /\ Len(duplicates) = 5

\* C6 witness: keys [a,a,a,b,c,c] reported as 2 keys over 5 rows
C6_Witness ==
    /\ pc = "done" /\ col = "snp"
    /\ KeysOf(combined_df) = <<"a", "a", "a", "b", "c", "c">>
    /\ reported = 2 /\ Len(duplicates) = 5

----------------------------------------------------------------------------
(* convert.py: convert_setlist, convert_annot                              *)
(* A setlist row is [transcript, chr, pos, snp], snp a comma-delimited     *)
(* string; an annotation row is [snp, transcript, snp_set]; a row of the   *)
(* transcript map is [chrom, transcript, gene, gene_symbol, gene_set].     *)

\* a missing value (NaN)
Null == "NaN"
isna(x) == x = Null

RECURSIVE MatchesOf(_, _, _)
MatchesOf(l, right, key) ==
    IF right = <<>> THEN <<>>
    ELSE (IF Head(right)[key] = l[key] /\ ~isna(l[key]) THEN <<l @@ Head(right)>> ELSE <<>>)
         \o MatchesOf(l, Tail(right), key)

RECURSIVE MergeLeftJoin(_, _, _)
\* mutant: merge(..., how='left'), a left row without a match is kept with a
\* null gene_set
MergeLeftJoin(left, right, key) ==
    IF left = <<>> THEN <<>>
    ELSE (IF MatchesOf(Head(left), right, key) = <<>>
          THEN <<Head(left) @@ [chrom |-> Null, gene |-> Null,
                                gene_symbol |-> Null, gene_set |-> Null]>>
          ELSE MatchesOf(Head(left), right, key))
         \o MergeLeftJoin(Tail(left), right, key)

RECURSIVE MergeFirstMatch(_, _, _)
\* mutant: one output row per left row, the first match only
MergeFirstMatch(left, right, key) ==
    IF left = <<>> THEN <<>>
    ELSE (IF MatchesOf(Head(left), right, key) = <<>> THEN <<>>
          ELSE <<MatchesOf(Head(left), right, key)[1]>>)
         \o MergeFirstMatch(Tail(left), right, key)

RECURSIVE InnerMerge(_, _, _)
\* lines 213, 253, 272: left.merge(right, on=key, how='inner'); the rows keep
\* the order of the left keys, one row per matching right row
InnerMerge(left, right, key) ==
    IF left = <<>> THEN <<>>
    ELSE MatchesOf(Head(left), right, key) \o InnerMerge(Tail(left), right, key)

\* lines 215, 254: merged_df['gene_set'].isna().any()
AnyNullGeneSet(merged) == \E i \in DOMAIN merged : isna(merged[i].gene_set)

RECURSIVE ExplodeSnp(_)
\* lines 225-226: snp split on ',' and exploded, one row per token
ExplodeSnp(merged) ==
    IF merged = <<>> THEN <<>>
    ELSE LET r == Head(merged)
             toks == Split(r.snp, ",")
         IN [i \in DOMAIN toks |-> [r EXCEPT !.snp = toks[i]]] \o ExplodeSnp(Tail(merged))

\* the sort order of the group keys: gene_set and chrom by their rank
GeneSetOrder == <<"G1", "G2">>
ChromOrder == <<"chr1">>
RankIn(order, x) == CHOOSE i \in DOMAIN order : order[i] = x
GroupKey(r) == <<RankIn(GeneSetOrder, r.gene_set), RankIn(ChromOrder, r.chrom), r.pos>>
KeyLess(a, b) ==
    \/ a[1] < b[1]
    \/ a[1] = b[1] /\ a[2] < b[2]
    \/ a[1] = b[1] /\ a[2] = b[2] /\ a[3] < b[3]

RECURSIVE SortedKeys(_)
SortedKeys(K) ==
    IF K = {} THEN <<>>
    ELSE LET m == CHOOSE x \in K : \A y \in K \ {x} : KeyLess(x, y)
         IN <<m>> \o SortedKeys(K \ {m})

RECURSIVE TokensOf(_, _)
\* the snp cells of the rows of one group, in row order
TokensOf(exploded, k) ==
    IF exploded = <<>> THEN <<>>
    ELSE (IF GroupKey(Head(exploded)) = k THEN <<Head(exploded).snp>> ELSE <<>>)
         \o TokensOf(Tail(exploded), k)

\* the orders in which a set can be iterated
Orderings(S) ==
    {o \in [1..Cardinality(S) -> S] : \A i, j \in DOMAIN o : i # j => o[i] # o[j]}

\* mutant: agg({'snp': list}), the tokens of the group as they come
CollapseAsList(exploded, k) == {TokensOf(exploded, k)}

\* line 228: agg({'snp': set}); line 230: ','.join(x) walks the set in an
\* order the language leaves open
CollapseAsSet(exploded, k) == Orderings(Range(TokensOf(exploded, k)))

RECURSIVE GroupLines(_, _)
\* lines 228-230: one line per group, groups in key order
GroupLines(exploded, keys) ==
    IF keys = <<>> THEN {<<>>}
    ELSE LET k == Head(keys)
         IN {<<[gene_set |-> GeneSetOrder[k[1]], chrom |-> ChromOrder[k[2]],
                pos |-> k[3], snp |-> Join(o, <<",">>)]>> \o rest :
                o \in CollapseAsSet(exploded, k), rest \in GroupLines(exploded, Tail(keys))}

\* lines 225-238: the contents convert_setlist may write for a merged frame
SetlistLines(merged) ==
    LET exploded == ExplodeSnp(merged)
    IN GroupLines(exploded, SortedKeys({GroupKey(exploded[i]) : i \in DOMAIN exploded}))

AnnotLine(r) == [snp |-> r.snp, gene_set |-> r.gene_set, snp_set |-> r.snp_set]

\* lines 257-262: the columns snp, gene_set, snp_set of the merged frame
AnnotLines(merged) == [i \in DOMAIN merged |-> AnnotLine(merged[i])]

Written(lines) == [t |-> "written", rows |-> lines]

(* Inputs.  Every cell of a file row is present; of the map only gene_set  *)
(* may be missing (the value the assert of lines 215 and 254 looks for).   *)
Transcripts == {"T1", "T2"}
MapRowPool ==
    << [chrom |-> "chr1", transcript |-> "T1", gene |-> "geneA", gene_symbol |-> "A", gene_set |-> "G1"],
       [chrom |-> "chr1", transcript |-> "T1", gene |-> "geneA", gene_symbol |-> "A", gene_set |-> "G2"],
       [chrom |-> "chr1", transcript |-> "T1", gene |-> "geneA", gene_symbol |-> "A", gene_set |-> Null],
       [chrom |-> "chr1", transcript |-> "T2", gene |-> "geneB", gene_symbol |-> "B", gene_set |-> "G1"],
       [chrom |-> "chr1", transcript |-> "T2", gene |-> "geneB", gene_symbol |-> "B", gene_set |-> "G2"],
       [chrom |-> "chr1", transcript |-> "T2", gene |-> "geneB", gene_symbol |-> "B", gene_set |-> Null] >>

RECURSIVE PickRows(_, _, _)
\* the rows of pool whose position is in S, in pool order
PickRows(pool, S, i) ==
    IF i > Len(pool) THEN <<>>
    ELSE (IF i \in S THEN <<pool[i]>> ELSE <<>>) \o PickRows(pool, S, i + 1)

TranscriptMaps == {PickRows(MapRowPool, S, 1) : S \in SUBSET DOMAIN MapRowPool}

SnpStrings == {<<"a">>, <<"a", ",", "b">>, <<"b", ",", "b">>}
SetlistRows ==
    {[transcript |-> t, chr |-> "1", pos |-> p, snp |-> s] :
        t \in Transcripts, p \in {10, 20}, s \in SnpStrings}
AnnotRows ==
    {[snp |-> s, transcript |-> t, snp_set |-> "LoF"] :
        s \in {<<"a">>, <<"b">>}, t \in Transcripts}
InputFiles ==
    {[t |-> "setlist", rows |-> r] : r \in SeqsUpTo(SetlistRows, MaxFileRows)}
    \cup {[t |-> "annot", rows |-> r] : r \in SeqsUpTo(AnnotRows, MaxFileRows)}

InitConv ==
    /\ pc = "convert" /\ error = "none"
    /\ infile \in InputFiles
    /\ transcript_map \in TranscriptMaps
    /\ outfile = NoFile
    /\ IdleTrait /\ IdleDup /\ IdleData

\* lines 211-238
convert_setlist ==
    /\ pc = "convert" /\ infile.t = "setlist"
    /\ LET merged_df == InnerMerge(infile.rows, transcript_map, "transcript")
       IN IF AnyNullGeneSet(merged_df)
          THEN \* the assert fails; its message reads chrom, no name of this scope
               /\ error' = "NameError" /\ pc' = "raised" /\ UNCHANGED outfile
          ELSE /\ \E lines \in SetlistLines(merged_df) : outfile' = Written(lines)
               /\ pc' = "done" /\ UNCHANGED error
    /\ UNCHANGED <<infile, transcript_map, traitVars, dupVars, dataVars>>

\* lines 251-262
convert_annot ==
    /\ pc = "convert" /\ infile.t = "annot"
    /\ LET merged_df == InnerMerge(infile.rows, transcript_map, "transcript")
       IN IF AnyNullGeneSet(merged_df)
          THEN /\ error' = "NameError" /\ pc' = "raised" /\ UNCHANGED outfile
          ELSE /\ outfile' = Written(AnnotLines(merged_df))
               /\ pc' = "done" /\ UNCHANGED error
    /\ UNCHANGED <<infile, transcript_map, traitVars, dupVars, dataVars>>

NextConv == convert_setlist \/ convert_annot

SpecConv == InitConv /\ [][NextConv]_vars

----------------------------------------------------------------------------
(* Claims on convert_setlist and convert_annot, checked under SpecConv.    *)

Finished == pc \in {"done", "raised"}
Resolved(t) == \E j \in DOMAIN transcript_map : transcript_map[j].transcript = t
UnresolvedRow == \E i \in DOMAIN infile.rows : ~Resolved(infile.rows[i].transcript)
ResolvedRow(r) == Resolved(r.transcript)

\* the pairs (file row, map row) the join puts together
JoinedPairs ==
    {p \in (DOMAIN infile.rows) \X (DOMAIN transcript_map) :
        infile.rows[p[1]].transcript = transcript_map[p[2]].transcript}
JoinsNull == \E p \in JoinedPairs : isna(transcript_map[p[2]].gene_set)
GeneSetsOfRow(i) == {transcript_map[p[2]].gene_set : p \in {q \in JoinedPairs : q[1] = i}}
SnpTokens(s) == Range(Split(s, ","))

\* C3 as stated: a setlist row whose transcript is missing from the map makes
\* convert_setlist raise before any output is written.
C3_MissingTranscriptRaises ==
    (Finished /\ infile.t = "setlist" /\ UnresolvedRow) =>
        error # "none" /\ outfile = NoFile

\* C3 amended: a setlist row whose transcript is missing from the map is
\* dropped by the inner join and raises nothing; convert_setlist raises, before
\* any output is written, exactly when a joined row has a null gene_set, and
\* otherwise writes the output of the remaining rows.
C3_MissingTranscriptDropped ==
    (Finished /\ infile.t = "setlist" /\ UnresolvedRow) =>
        /\ error # "none" <=> JoinsNull
        /\ error # "none" => pc = "raised" /\ outfile = NoFile
        /\ error = "none" =>
              /\ pc = "done" /\ outfile.t = "written"
              /\ outfile.rows \in
                    SetlistLines(InnerMerge(SelectSeq(infile.rows, ResolvedRow),
                                            transcript_map, "transcript"))

\* C3 witness: a setlist with one row of a missing transcript and one row of
\* a mapped transcript, converted without an error into one line
C3_Witness ==
    /\ pc = "done" /\ infile.t = "setlist" /\ error = "none"
    /\ Len(infile.rows) = 2
    /\ ~Resolved(infile.rows[1].transcript) /\ Resolved(infile.rows[2].transcript)
    /\ outfile.t = "written" /\ Len(outfile.rows) = 1

LineKey(l) == <<l.gene_set, l.chrom, l.pos>>
PairKey(p) ==
    <<transcript_map[p[2]].gene_set, transcript_map[p[2]].chrom, infile.rows[p[1]].pos>>

\* C7: in the file convert_setlist writes, the snp string of each group
\* (gene_set, chrom, pos), split on ',', holds no token twice and holds
\* exactly the tokens of the snp fields of the joined input rows of that
\* group; the file has exactly one line per distinct group.
C7_RoundTripAggregation ==
    (pc = "done" /\ infile.t = "setlist") =>
        /\ outfile.t = "written"
        /\ \A n \in DOMAIN outfile.rows :
              LET l == outfile.rows[n]
                  toks == Split(l.snp, ",")
              IN /\ NoRepeat(toks)
                 /\ Range(toks) =
                       UNION {SnpTokens(infile.rows[p[1]].snp) :
                                 p \in {q \in JoinedPairs : PairKey(q) = LineKey(l)}}
        /\ {LineKey(outfile.rows[n]) : n \in DOMAIN outfile.rows}
              = {PairKey(p) : p \in JoinedPairs}
        /\ Len(outfile.rows) = Cardinality({PairKey(p) : p \in JoinedPairs})

\* C7 witness: two rows of one group, "a" and "b,b", written as one line
\* whose tokens are a and b
C7_Witness ==
    /\ pc = "done" /\ infile.t = "setlist" /\ Len(infile.rows) = 2
    /\ infile.rows[1].snp = <<"a">> /\ infile.rows[2].snp = <<"b", ",", "b">>
    /\ Len(outfile.rows) = 1
    /\ SnpTokens(outfile.rows[1].snp) = {<<"a">>, <<"b">>}
    /\ Len(outfile.rows[1].snp) = 3

\* C10: in convert_setlist and convert_annot a row whose transcript is absent
\* from the map raises nothing and adds nothing to the output, every output
\* line carries a gene_set the map gives to the transcript of an input row,
\* and a row whose transcript maps to k gene sets is in k output lines.
C10_UnresolvedDroppedFanOut ==
    /\ (Finished /\ error # "none") => JoinsNull
    /\ pc = "done" =>
          LET lines == outfile.rows
              kept == InnerMerge(SelectSeq(infile.rows, ResolvedRow),
                                 transcript_map, "transcript")
          IN /\ outfile.t = "written"
             /\ infile.t = "setlist" => lines \in SetlistLines(kept)
             /\ infile.t = "annot" => lines = AnnotLines(kept)
             /\ \A n \in DOMAIN lines :
                   lines[n].gene_set \in
                       {transcript_map[p[2]].gene_set : p \in JoinedPairs}
             /\ infile.t = "setlist" =>
                   \A i \in DOMAIN infile.rows :
                       Cardinality({n \in DOMAIN lines :
                           /\ lines[n].pos = infile.rows[i].pos
                           /\ lines[n].gene_set \in GeneSetsOfRow(i)
                           /\ SnpTokens(infile.rows[i].snp) \subseteq SnpTokens(lines[n].snp)})
                         = Cardinality(GeneSetsOfRow(i))
             /\ infile.t = "annot" =>
                   /\ Len(lines) = Cardinality(JoinedPairs)
                   /\ \A i \in DOMAIN infile.rows : \A g \in GeneSetsOfRow(i) :
                         \E n \in DOMAIN lines :
                             lines[n] = [snp |-> infile.rows[i].snp, gene_set |-> g,
                                         snp_set |-> infile.rows[i].snp_set]

\* C10 witness: an annotation file with a row of an absent transcript and a
\* row of a transcript in two gene sets, written as two lines
C10_Witness ==
    /\ pc = "done" /\ infile.t = "annot" /\ Len(infile.rows) = 2
    /\ GeneSetsOfRow(1) = {} /\ Cardinality(GeneSetsOfRow(2)) = 2
    /\ Len(outfile.rows) = 2 /\ outfile.rows[1].gene_set # outfile.rows[2].gene_set

----------------------------------------------------------------------------
(* convert.py: convert_data                                                *)
(* A file is <<i, kind>>: the setlist or annotation file of chromosome     *)
(* chr<i>.  fs gives each file's content, Missing where os.path.exists is  *)
(* False.  An event is [what, file]: a "does not exist" notice printed or  *)
(* an output file written.                                                 *)

\* lines 5-12: chr1 .. chr<NumChromosomes>, by number
get_chromosomes == [i \in 1..NumChromosomes |-> i]

Files == Range(get_chromosomes) \X {"setlist", "annot"}

\* lines 269-270: data/transcript_gene_map.csv
TranscriptToGene ==
    << [chrom |-> "chr1", transcript |-> "T1", gene |-> "geneA", gene_symbol |-> "A"],
       [chrom |-> "chr1", transcript |-> "T2", gene |-> "geneB", gene_symbol |-> "B"] >>

(* Inputs. *)
\* the gene-set relation, exploded (read_gene_sets): one without and one with
\* a gene set whose identifier is missing
GeneSetRelations ==
    { << [gene_set |-> "G1", gene |-> "geneA"], [gene_set |-> "G2", gene |-> "geneA"],
         [gene_set |-> "G2", gene |-> "geneB"] >>,
      << [gene_set |-> "G1", gene |-> "geneA"], [gene_set |-> Null, gene |-> "geneB"] >> }

FileContents(kind) ==
    IF kind = "setlist"
    THEN {[t |-> "setlist", rows |->
              <<[transcript |-> tr, chr |-> "1", pos |-> 10, snp |-> <<"b", ",", "b">>]>>] :
              tr \in Transcripts}
    ELSE {[t |-> "annot", rows |->
              <<[snp |-> <<"a">>, transcript |-> tr, snp_set |-> "LoF"]>>] :
              tr \in Transcripts}

InitData ==
    /\ pc = "load" /\ error = "none"
    /\ geneset_df \in GeneSetRelations
    /\ fs \in {f \in [Files -> {Missing} \cup FileContents("setlist") \cup FileContents("annot")] :
                 \A x \in Files : f[x] = Missing \/ f[x].t = x[2]}
    /\ chrom_i = 1
    /\ outdir = [x \in Files |-> NoFile]
    /\ events = <<>>
    /\ transcript_map = <<>>
    /\ IdleTrait /\ IdleDup /\ IdleConv

\* lines 267-272: the transcript map is merged with the gene sets on gene
LoadTables ==
    /\ pc = "load"
    /\ transcript_map' = InnerMerge(TranscriptToGene, geneset_df, "gene")
    /\ pc' = "setlist"
    /\ UNCHANGED <<error, traitVars, dupVars, convVars, dataVars>>

\* os.path.exists
Exists(f) == fs[f] # Missing

\* lines 280, 285: convert_setlist / convert_annot called on an existing file;
\* an exception leaves the loop and convert_data
ConvertFile(f, after) ==
    LET merged_df == InnerMerge(fs[f].rows, transcript_map, "transcript")
    IN IF AnyNullGeneSet(merged_df)
       THEN /\ error' = "NameError" /\ pc' = "raised"
            /\ UNCHANGED <<outdir, events>>
       ELSE /\ \E lines \in (IF f[2] = "setlist" THEN SetlistLines(merged_df)
                                                 ELSE {AnnotLines(merged_df)}) :
                   outdir' = [outdir EXCEPT ![f] = Written(lines)]
            /\ events' = Append(events, [what |-> "wrote", file |-> f])
            /\ pc' = after /\ UNCHANGED error

\* the loop header after the annotation step of chromosome chrom_i
NextChromosome ==
    IF chrom_i = Len(get_chromosomes)
    THEN pc' = "end" /\ UNCHANGED chrom_i
    ELSE pc' = "setlist" /\ chrom_i' = chrom_i + 1

\* mutant: a missing setlist ends the iteration (continue), the annotation
\* file of the chromosome is not looked at
SkipSetlistContinue(f) ==
    /\ events' = Append(events, [what |-> "notice", file |-> f])
    /\ NextChromosome
    /\ UNCHANGED <<error, outdir>>

\* lines 281-282: the notice, then on to the annotation file
SkipSetlist(f) ==
    /\ events' = Append(events, [what |-> "notice", file |-> f])
    /\ pc' = "annot"
    /\ UNCHANGED <<error, outdir, chrom_i>>

\* lines 278-282
SetlistStep ==
    /\ pc = "setlist"
    /\ LET f == <<get_chromosomes[chrom_i], "setlist">>
       IN \/ Exists(f) /\ ConvertFile(f, "annot") /\ UNCHANGED chrom_i
          \/ ~Exists(f) /\ SkipSetlist(f)
    /\ UNCHANGED <<geneset_df, fs, transcript_map, traitVars, dupVars, convVars>>

\* lines 283-287
AnnotStep ==
    /\ pc = "annot"
    /\ LET f == <<get_chromosomes[chrom_i], "annot">>
       IN \/ /\ Exists(f)
             /\ ConvertFile(f, "loop")
             /\ UNCHANGED chrom_i
          \/ /\ ~Exists(f)
             /\ events' = Append(events, [what |-> "notice", file |-> f])
             /\ pc' = "loop"
             /\ UNCHANGED <<error, outdir, chrom_i>>
    /\ UNCHANGED <<geneset_df, fs, transcript_map, traitVars, dupVars, convVars>>

\* line 275: the next chromosome, or the end of the loop
LoopStep ==
    /\ pc = "loop"
    /\ NextChromosome
    /\ UNCHANGED <<error, outdir, events>>
    /\ UNCHANGED <<geneset_df, fs, transcript_map, traitVars, dupVars, convVars>>

\* line 289: "Conversion completed for all chromosomes."
Complete ==
    /\ pc = "end"
    /\ pc' = "completed"
    /\ UNCHANGED <<error, transcript_map, traitVars, dupVars, convVars, dataVars>>

NextData == LoadTables \/ SetlistStep \/ AnnotStep \/ LoopStep \/ Complete

SpecData == InitData /\ [][NextData]_vars

----------------------------------------------------------------------------
(* Claims on convert_data, checked under SpecData.                         *)

\* the files in the order the loop reaches them
FileOrder ==
    [n \in 1..(2 * NumChromosomes) |->
        <<(n + 1) \div 2, IF n % 2 = 1 THEN "setlist" ELSE "annot">>]

\* the file exists and one of its rows joins a map row with a null gene_set
FatalFile(f) ==
    /\ fs[f] # Missing
    /\ \E i \in DOMAIN fs[f].rows : \E j \in DOMAIN transcript_map :
          /\ fs[f].rows[i].transcript = transcript_map[j].transcript
          /\ isna(transcript_map[j].gene_set)

Terminated == pc \in {"completed", "raised"}

\* C4: a null-gene_set failure in one file aborts that file alone: once the
\* run is over, every other file that exists has its output written, wherever
\* the failing file stands in the sequence.
C4_FailureAbortsOneFile ==
    Terminated =>
        \A f \in Files : (fs[f] # Missing /\ ~FatalFile(f)) => outdir[f] # NoFile

\* what the loop has done with the files it has gone past: in file order, a
\* notice for an absent file and a written output for a file that exists
SkipLog ==
    /\ Len(events) <= Len(FileOrder)
    /\ \A n \in DOMAIN events :
          /\ events[n].file = FileOrder[n]
          /\ events[n].what = IF fs[FileOrder[n]] = Missing THEN "notice" ELSE "wrote"
    /\ \A f \in Files :
          outdir[f] # NoFile <=>
              \E n \in DOMAIN events : events[n] = [what |-> "wrote", file |-> f]
    /\ chrom_i \in DOMAIN get_chromosomes
    /\ pc = "load" => events = <<>>
    /\ pc = "setlist" => Len(events) = 2 * chrom_i - 2
    /\ pc = "annot" => Len(events) = 2 * chrom_i - 1
    /\ pc = "loop" => Len(events) = 2 * chrom_i
    /\ pc \in {"end", "completed"} => Len(events) = Len(FileOrder)
    /\ pc \in {"load", "setlist", "annot", "loop", "end", "completed", "raised"}
    /\ pc = "raised" <=> error # "none"
    /\ pc = "raised" => Len(events) < Len(FileOrder) /\ FatalFile(FileOrder[Len(events) + 1])

\* how far the run has come: every step of the loop moves it on
Progress ==
    CASE pc = "load" -> 0
      [] pc = "setlist" -> 3 * chrom_i - 2
      [] pc = "annot" -> 3 * chrom_i - 1
      [] pc = "loop" -> 3 * chrom_i
      [] pc = "end" -> 3 * NumChromosomes + 1
      [] OTHER -> 3 * NumChromosomes + 2

\* C5: whatever files are absent, convert_data prints a notice for each absent
\* file and converts each file that exists, in the order chr1 .. chrN with the
\* setlist before the annotation file; an absent file never stops the run (a
\* run stops early only at a file that exists and fails), an absent setlist is
\* followed by the annotation file of its chromosome, and the run comes to its
\* end: every step moves the loop on, and at the end of the loop every file
\* has its notice or its output.
C5_MissingFileSkip ==
    /\ [](SkipLog)
    /\ [][Progress' > Progress]_vars

\* C5 witness: a completed run in which the setlist of chr1 and the annotation
\* file of chr2 are absent and every other file was converted
C5_Witness ==
    /\ pc = "completed"
    /\ fs[<<1, "setlist">>] = Missing /\ fs[<<2, "annot">>] = Missing
    /\ \A f \in Files \ {<<1, "setlist">>, <<2, "annot">>} : outdir[f] # NoFile
    /\ Len(events) = Len(FileOrder)
    /\ events[1].what = "notice" /\ events[2].what = "wrote"

----------------------------------------------------------------------------
(* The four programs side by side: a run is a run of one of them.          *)

Init == InitTrait \/ InitDup \/ InitConv \/ InitData

Next == NextTrait \/ NextDup \/ NextConv \/ NextData

Spec == Init /\ [][Next]_vars

====
